---- MODULE Spec2Model ----
(***************************************************************************)
(* Model of KwattApiClient (src/api.py): the six-step authentication and   *)
(* pairing sequence, the pairing poller, installation resolution, token    *)
(* refresh and the bearer-authenticated session operations; and of the     *)
(* host's entry points that construct a client: the config flow and        *)
(* validate_input (src/config_flow.py), async_setup_entry                  *)
(* (src/__init__.py).                                                      *)
(*                                                                         *)
(* One client object, one logical flow of control: an operation is started *)
(* only while no other operation of the client is running.                 *)
(***************************************************************************)
EXTENDS Integers, Sequences, FiniteSets, TLC

(***************************************************************************)
(* Values.  Optional Python strings are strings, with None a value apart   *)
(* from the empty string "".  Identifiers whose prefix the code inspects   *)
(* (externalId) are tuples of characters, so that startswith() is          *)
(* computed and not assumed.                                               *)
(***************************************************************************)
None == "<None>"

NoneId == <<"<None>">>

\* NotToken testing for None alone (is None in place of not).
NotTokenNoneOnly(t) == t = None

\* Python truthiness of an optional string: None and "" are falsy.
NotToken(t) == t = None \/ t = ""

\* Truthiness of an optional identifier (external_id and ...).
Truthy(id) == id # NoneId /\ id # <<>>

\* StartsWith as a substring test (p in s in place of s.startswith(p)).
StartsWithContains(s, p) ==
    \E i \in 1..Len(s) : i + Len(p) - 1 <= Len(s) /\ SubSeq(s, i, i + Len(p) - 1) = p

\* str.startswith
StartsWith(s, p) == Len(s) >= Len(p) /\ SubSeq(s, 1, Len(p)) = p

INS_PREFIX == <<"I", "N", "S", "-">>

Range(s) == {s[i] : i \in DOMAIN s}

\* The cic the client was constructed with, and another device's id.
cic == <<"C", "I", "C", "-", "A">>

otherCic == <<"C", "I", "C", "-", "B">>

PAIRING_TIMEOUT == 60

PAIRING_CHECK_INTERVAL == 2

(***************************************************************************)
(* Bounds of the environment.                                              *)
(***************************************************************************)
\* Longest time (seconds of the event loop's clock) one poll request takes.
MaxReqDur == 1

\* Longest installations list the backend returns.
MaxInst == 2

\* The event loop's clock when the poller takes its first reading.
StartClock == 5

(***************************************************************************)
(* What the remote side can answer.                                        *)
(***************************************************************************)
Statuses == {200, 201, 204, 401, 500}

\* A request either raises in the transport (exc) or yields a status and a
\* body; json = FALSE is a body response.json() raises on.
\* The client reads a body only of a 200 response, so the bodies vary there.
Response(bodies) ==
    LET any == CHOOSE b \in bodies : TRUE
    IN  [exc : {FALSE}, status : {200}, body : bodies]
            \cup [exc : {FALSE}, status : Statuses, body : {any}]
            \cup [exc : {TRUE}, status : {0}, body : {any}]

\* Firebase installation body: fid and authToken; authToken is an object
\* with a token ("fb1") or JSON null ("null").
FirebaseBodies ==
    [json : {TRUE}, fid : {"fid1"}, authToken : {"fb1", "null"}]
        \cup [json : {FALSE}, fid : {None}, authToken : {"null"}]

\* Signup body: idToken / refreshToken (camelCase), present, absent or empty.
SignupBodies ==
    {[json |-> TRUE, idToken |-> "idA", refreshToken |-> "rA"],
     [json |-> TRUE, idToken |-> None, refreshToken |-> "rA"],
     [json |-> TRUE, idToken |-> "", refreshToken |-> None],
     [json |-> FALSE, idToken |-> None, refreshToken |-> None]}

\* Token refresh body: id_token / refresh_token (snake_case); dict = FALSE is
\* valid JSON that is not an object.
RefreshBodies ==
    {[json |-> TRUE, dict |-> TRUE, id_token |-> "idB", refresh_token |-> "rB"],
     [json |-> TRUE, dict |-> TRUE, id_token |-> "", refresh_token |-> "rB"],
     [json |-> TRUE, dict |-> TRUE, id_token |-> None, refresh_token |-> ""],
     [json |-> TRUE, dict |-> FALSE, id_token |-> None, refresh_token |-> None],
     [json |-> FALSE, dict |-> FALSE, id_token |-> None, refresh_token |-> None]}

\* Bodies whose content the client never reads (profile update, request pair).
PlainBodies == {[json |-> TRUE]}

\* GET /me body: result.cicIds.
CicIdLists == {<<>>, <<otherCic>>, <<cic>>, <<otherCic, cic>>}

PollBodies ==
    [json : {TRUE}, cicIds : CicIdLists] \cup [json : {FALSE}, cicIds : {<<>>}]

ExternalIds ==
    {<<"I", "N", "S", "-", "1">>, <<"I", "N", "S", "-", "2">>,
     <<"X", "I", "N", "S", "-">>, NoneId}

\* An installation record; dict = FALSE is a list element that is no object.
Records ==
    [dict : {TRUE}, externalId : ExternalIds]
        \cup [dict : {FALSE}, externalId : {NoneId}]

SeqsUpTo(S, n) == UNION {[1..k -> S] : k \in 0..n}

InstallationLists == SeqsUpTo(Records, MaxInst)

InstallationBodies ==
    [json : {TRUE}, result : InstallationLists]
        \cup [json : {FALSE}, result : {<<>>}]

CicDataBodies == {[json |-> TRUE, data |-> "cicdata"], [json |-> FALSE, data |-> None]}

(***************************************************************************)
(* State.                                                                  *)
(***************************************************************************)
VARIABLES
    \* KwattApiClient fields (api.py:36-43)
    id_token, refresh_token, fid, firebase_auth_token, installation_id,
    pairing_completed,
    \* control: where the running operation stands, which operation it is,
    \* what the last finished operation returned, whether it raised
    pc, op, ret, raised,
    \* the event loop's clock as last read, and _wait_for_pairing's start_time
    now, start_time,
    \* history of the running (or last finished) operation
    reqLog,         \* requests issued, <<kind, bearer token>>, repeated polls once
    polls,          \* poll requests issued
    sleeps,         \* inter-poll sleeps taken
    lastDur,        \* duration of the last poll request
    lastPoll,       \* whether the last poll confirmed the pairing
    pollErr,        \* some poll failed (non-200 status, exception, bad body)
    statusFail,     \* the step that received a non-success HTTP status, or 0
    excAt,          \* the step in which an exception was raised last, or 0
    got,            \* the tokens the signup of this call answered
    pre,            \* installationId at the call; for refresh_token, the
                    \* operation whose contract names them, the other
                    \* fields at the call too
    installations,  \* the list the last installations listing returned
    resp,           \* the response the last public session operation received
    \* KwattConfigFlow (config_flow.py:54-130) and the entry points of the host
    flow_cic,       \* self._cic
    form,           \* what the flow returned last: a form, an entry, an abort
    errors,         \* the errors shown with that form, <<key, value>> pairs
    hostpc,         \* the entry point that awaits the client's authenticate()
    hostop,         \* the entry point that ran last
    hostret,        \* what it returned, or the exception it raised
    made,           \* whether it constructed a KwattApiClient
    loaded,         \* what store.async_load() returned to async_setup_entry
    saved,          \* what the code wrote to the Token Store last
    configured,     \* whether a config entry for the device exists
    given           \* the identifier the entry point that ran last was given

client ==
    <<id_token, refresh_token, fid, firebase_auth_token, installation_id,
      pairing_completed>>

poller == <<now, start_time, polls, sleeps, lastDur, lastPoll, pollErr>>

host ==
    <<flow_cic, form, errors, hostpc, hostop, hostret, made, loaded, saved,
      configured, given>>

vars ==
    <<id_token, refresh_token, fid, firebase_auth_token, installation_id,
      pairing_completed, pc, op, ret, raised, now, start_time, reqLog, polls,
      sleeps, lastDur, lastPoll, pollErr, statusFail, excAt, got, pre,
      installations, resp, flow_cic, form, errors, hostpc, hostop, hostret,
      made, loaded, saved, configured, given>>

\* No identifier: the entry point was called without user input.
NoInput == <<"<no input>">>

\* No response: the operation issued no request.
NoResp == [exc |-> FALSE, status |-> 0, body |-> [json |-> FALSE]]

\* No snapshot: an empty Token Store (store.async_load() returns None).
NoSnapshot == [id_token |-> None, refresh_token |-> None, installation_id |-> NoneId]

\* The fields an operation must leave alone, as they are now.
Frame(id, rt) ==
    [id |-> id, rt |-> rt, inst |-> installation_id,
     paired |-> pairing_completed, fid |-> fid, fbt |-> firebase_auth_token]

NoFrame ==
    [id |-> None, rt |-> None, inst |-> installation_id,
     paired |-> FALSE, fid |-> None, fbt |-> None]

Init ==
    /\ id_token = None
    /\ refresh_token = None
    /\ fid = None
    /\ firebase_auth_token = None
    /\ installation_id = NoneId
    /\ pairing_completed = FALSE
    /\ pc = "idle"
    /\ op = "none"
    /\ ret = "none"
    /\ raised = FALSE
    /\ now = 0
    /\ start_time = 0
    /\ reqLog = <<>>
    /\ polls = 0
    /\ sleeps = 0
    /\ lastDur = 0
    /\ lastPoll = "none"
    /\ pollErr = FALSE
    /\ statusFail = 0
    /\ excAt = 0
    /\ got = [id |-> None, rt |-> None]
    /\ pre = [id |-> None, rt |-> None, inst |-> NoneId,
              paired |-> FALSE, fid |-> None, fbt |-> None]
    /\ installations = <<>>
    /\ resp = NoResp
    /\ flow_cic = NoneId
    /\ form = "none"
    /\ errors = {}
    /\ hostpc = "idle"
    /\ hostop = "none"
    /\ hostret = "none"
    /\ made = FALSE
    /\ loaded = NoSnapshot
    /\ saved = NoSnapshot
    /\ configured = FALSE
    /\ given = NoInput

(***************************************************************************)
(* History bookkeeping.                                                    *)
(***************************************************************************)
\* The log with one more request; a poll repeated in a row is logged once.
Log(kind, tok) ==
    IF kind = "poll" /\ reqLog # <<>> /\ reqLog[Len(reqLog)][1] = "poll"
    THEN reqLog
    ELSE Append(reqLog, <<kind, tok>>)

\* The statuses the wire contract counts as success, per step (spec section 6).
ContractSuccess(step) ==
    CASE step = 3 -> {200, 201}
      [] step = 4 -> {200, 201, 204}
      [] OTHER -> {200}

Failed(step, r) ==
    IF ~r.exc /\ r.status \notin ContractSuccess(step) THEN step ELSE statusFail

\* The request of a step raised: in the transport, or in response.json().
Raised(step, r) ==
    IF r.exc \/ (r.status = 200 /\ ~r.body.json) THEN step ELSE excAt

\* The poller's frame is left: its clock readings and counts are dropped,
\* whether its last poll confirmed is kept.
PopPoller ==
    /\ now' = 0
    /\ start_time' = 0
    /\ polls' = 0
    /\ sleeps' = 0
    /\ lastDur' = 0
    /\ pollErr' = FALSE
    /\ lastPoll' = lastPoll

ResetPoller ==
    /\ now' = 0
    /\ start_time' = 0
    /\ polls' = 0
    /\ sleeps' = 0
    /\ lastDur' = 0
    /\ lastPoll' = "none"
    /\ pollErr' = FALSE

\* A call of operation o on the idle client, entering at position first.
Begin(o, first) ==
    /\ pc = "idle"
    /\ pc' = first
    /\ op' = o
    /\ ret' = "running"
    /\ raised' = FALSE
    /\ reqLog' = <<>>
    /\ statusFail' = 0
    /\ excAt' = 0
    /\ got' = [id |-> None, rt |-> None]
    /\ pre' = NoFrame
    /\ installations' = <<>>
    /\ resp' = NoResp
    /\ ResetPoller
    /\ UNCHANGED client

\* Return that issues the request of a failed step once more.
ReturnOrRetry(v) ==
    IF v = "False" /\ op = "authenticate" /\ pc \in {"firebase", "signup", "pair"}
    THEN UNCHANGED <<pc, ret, raised>>
    ELSE pc' = "idle" /\ ret' = v /\ raised' = FALSE

\* The running operation returns v to its caller.
Return(v) == pc' = "idle" /\ ret' = v /\ raised' = FALSE

\* A step returned True: authenticate() goes on to the next step, a step
\* called on its own returns True.
Proceed(next) ==
    IF op = "authenticate"
    THEN pc' = next /\ ret' = ret /\ raised' = FALSE
    ELSE Return("True")

(***************************************************************************)
(* authenticate(): steps 1 to 4.                                           *)
(***************************************************************************)
\* api.py:45.  The call itself; the steps follow one by one.
Authenticate == Begin("authenticate", "firebase") /\ UNCHANGED host

\* api.py:93-112.  What _get_firebase_installation makes of response r:
\* fid is stored before authToken is read, and a JSON null authToken makes
\* auth_token.get raise, which the step's own except turns into False.
FirebaseResult(r) ==
    IF r.exc \/ r.status # 200 \/ ~r.body.json
    THEN [ok |-> FALSE, fid |-> fid, token |-> firebase_auth_token]
    ELSE IF r.body.authToken = "null"
    THEN [ok |-> FALSE, fid |-> r.body.fid, token |-> firebase_auth_token]
    ELSE [ok |-> TRUE, fid |-> r.body.fid,
          token |-> IF r.body.authToken = "missing" THEN None
                    ELSE r.body.authToken]

\* api.py:77-112, called at api.py:49.
GetFirebaseInstallation ==
    /\ pc = "firebase"
    /\ \E r \in Response(FirebaseBodies) :
        LET res == FirebaseResult(r)
        IN  /\ reqLog' = Log("firebase", None)
            /\ statusFail' = Failed(1, r)
            /\ excAt' = IF ~r.exc /\ r.status = 200 /\ r.body.authToken = "null"
                         THEN 1 ELSE Raised(1, r)
            /\ fid' = res.fid
            /\ firebase_auth_token' = res.token
            /\ IF res.ok THEN Proceed("signup") ELSE Return("False")
    /\ UNCHANGED <<id_token, refresh_token, installation_id, pairing_completed,
                   op, poller, got, pre, installations>>
    /\ UNCHANGED <<resp, host>>

\* api.py:128-144.  What _signup_new_user makes of response r.
SignupResult(r) ==
    IF r.exc \/ r.status # 200 \/ ~r.body.json
    THEN [ok |-> FALSE, id |-> id_token, rt |-> refresh_token]
    ELSE [ok |-> TRUE, id |-> r.body.idToken, rt |-> r.body.refreshToken]

\* api.py:114-144, called at api.py:53.
SignupNewUser ==
    /\ pc = "signup"
    /\ \E r \in Response(SignupBodies) :
        LET res == SignupResult(r)
        IN  /\ reqLog' = Log("signup", None)
            /\ statusFail' = Failed(2, r)
            /\ excAt' = Raised(2, r)
            /\ got' = IF res.ok THEN [id |-> r.body.idToken, rt |-> r.body.refreshToken]
                       ELSE got
            /\ id_token' = res.id
            /\ refresh_token' = res.rt
            /\ IF res.ok THEN Proceed("profile") ELSE Return("False")
    /\ UNCHANGED <<fid, firebase_auth_token, installation_id, pairing_completed,
                   op, poller, pre, installations>>
    /\ UNCHANGED <<resp, host>>

\* ProfileSuccess with the pairing request's status set.
ProfileSuccessWith204(status) == status \in {200, 201, 204}

\* api.py:161
ProfileSuccess(status) == status \in {200, 201}

\* api.py:146-170, called at api.py:57.
UpdateUserProfile ==
    /\ pc = "profile"
    /\ IF NotToken(id_token)
       THEN Return("False") /\ UNCHANGED <<reqLog, statusFail, excAt>>
       ELSE \E r \in Response(PlainBodies) :
            /\ reqLog' = Log("profile", id_token)
            /\ statusFail' = Failed(3, r)
            /\ excAt' = IF r.exc THEN 3 ELSE excAt
            /\ IF ~r.exc /\ ProfileSuccess(r.status)
               THEN Proceed("pair")
               ELSE Return("False")
    /\ UNCHANGED <<client, op, poller, got, pre, installations>>
    /\ UNCHANGED <<resp, host>>

\* api.py:187
PairSuccess(status) == status \in {200, 201, 204}

\* api.py:172-194, called at api.py:61.
RequestPair ==
    /\ pc = "pair"
    /\ IF NotToken(id_token)
       THEN Return("False") /\ UNCHANGED <<reqLog, statusFail, excAt>>
       ELSE \E r \in Response(PlainBodies) :
            /\ reqLog' = Log("pair", id_token)
            /\ statusFail' = Failed(4, r)
            /\ excAt' = IF r.exc THEN 4 ELSE excAt
            /\ IF ~r.exc /\ PairSuccess(r.status)
               THEN Proceed("wait")
               ELSE Return("False")
    /\ UNCHANGED <<client, op, poller, got, pre, installations>>
    /\ UNCHANGED <<resp, host>>

(***************************************************************************)
(* Step 5: the pairing poller.                                             *)
(***************************************************************************)
\* api.py:196-207, called at api.py:65: the guard, then the first reading of
\* the clock.
WaitForPairing ==
    /\ pc = "wait"
    /\ IF NotToken(id_token)
       THEN Return("False") /\ UNCHANGED <<now, start_time>>
       ELSE /\ now' = StartClock
            /\ start_time' = StartClock
            /\ pc' = "poll"
            /\ UNCHANGED <<ret, raised>>
    /\ UNCHANGED <<client, op, reqLog, polls, sleeps, lastDur, lastPoll, pollErr,
                   statusFail, excAt, got, pre, installations>>
    /\ UNCHANGED <<resp, host>>

\* LoopCondition that never fails.
LoopConditionAlways(t, start) == t >= start

\* LoopCondition with <= in place of <.
LoopConditionInclusive(t, start) == (t - start) <= PAIRING_TIMEOUT

\* api.py:209
LoopCondition(t, start) == (t - start) < PAIRING_TIMEOUT

\* PairingConfirmed looking at the first id alone.
PairingConfirmedFirstOnly(cic_ids) == cic_ids # <<>> /\ cic = cic_ids[1]

\* api.py:218
PairingConfirmed(cic_ids) == cic_ids # <<>> /\ cic \in Range(cic_ids)

\* PollOutcome with a transport exception ending the loop.
PollOutcomeAbortOnError(r) ==
    IF r.exc THEN "abort"
    ELSE IF r.status # 200 THEN "retry"
    ELSE IF ~r.body.json THEN "retry"
    ELSE IF cic \in Range(r.body.cicIds) THEN "confirmed"
    ELSE "retry"

\* api.py:210-229.  What one poll makes of response r: "confirmed" returns
\* True, "retry" goes on to the sleep.  A non-200 status is logged, an
\* exception (transport, or response.json()) is caught and logged.
PollOutcome(r) ==
    IF r.exc THEN "retry"
    ELSE IF r.status # 200 THEN "retry"
    ELSE IF ~r.body.json THEN "retry"
    ELSE IF PairingConfirmed(r.body.cicIds) THEN "confirmed"
    ELSE "retry"

\* How the history classifies a poll response.
PollClass(r) ==
    IF r.exc \/ r.status # 200 \/ ~r.body.json THEN "error"
    ELSE IF cic \in Range(r.body.cicIds) THEN "confirm"
    ELSE "noconfirm"

\* The history keeps of the last poll whether it confirmed.
PollMark(r) == IF PollClass(r) = "confirm" THEN "confirm" ELSE "other"

\* api.py:209-232.  One iteration of the loop: the request, which takes d
\* seconds, and, unless it confirms, the sleep.
PollIteration ==
    /\ pc = "poll"
    /\ LoopCondition(now, start_time)
    /\ \E r \in Response(PollBodies), d \in 0..MaxReqDur :
        LET out == PollOutcome(r)
        IN  /\ reqLog' = Log("poll", id_token)
            /\ polls' = polls + 1
            /\ lastDur' = d
            /\ lastPoll' = PollMark(r)
            /\ pollErr' = (pollErr \/ PollClass(r) = "error")
            /\ excAt' = Raised(5, r)
            /\ CASE out = "confirmed" ->
                    /\ pairing_completed' = TRUE
                    /\ now' = now + d
                    /\ sleeps' = sleeps
                    /\ Proceed("resolve")
                 [] out = "retry" ->
                    /\ pairing_completed' = pairing_completed
                    /\ now' = now + d + PAIRING_CHECK_INTERVAL
                    /\ sleeps' = sleeps + 1
                    /\ UNCHANGED <<pc, ret, raised>>
                 [] OTHER ->
                    /\ pairing_completed' = pairing_completed
                    /\ now' = now + d
                    /\ sleeps' = sleeps
                    /\ Return("False")
    /\ UNCHANGED <<id_token, refresh_token, fid, firebase_auth_token,
                   installation_id, op, start_time, statusFail, got, pre,
                   installations>>
    /\ UNCHANGED <<resp, host>>

\* api.py:209, 234-235.  The loop condition fails: timeout.
PairingTimeout ==
    /\ pc = "poll"
    /\ ~LoopCondition(now, start_time)
    /\ Return("False")
    /\ UNCHANGED <<client, op, poller, reqLog, statusFail, excAt, got, pre,
                   installations>>
    /\ UNCHANGED <<resp, host>>

(***************************************************************************)
(* Step 6 and the session operations.                                      *)
(***************************************************************************)
\* api.py:306-315.  What get_installations returns for response r: the
\* body's result on 200, [] on any other status or exception.
InstallationsResult(r) ==
    IF r.exc \/ r.status # 200 \/ ~r.body.json THEN <<>> ELSE r.body.result

\* IsTarget without the prefix test.
IsTargetAnyId(external_id) == Truthy(external_id)

\* api.py:251
IsTarget(external_id) ==
    Truthy(external_id) /\ StartsWith(external_id, INS_PREFIX)

\* api.py:249-258.  The loop over the records from index i on: the first
\* target is found; a record that is no object makes installation.get raise.
RECURSIVE FirstFrom(_, _)
FirstFrom(list, i) ==
    IF i > Len(list) THEN [kind |-> "none", id |-> NoneId]
    ELSE IF ~list[i].dict THEN [kind |-> "raise", id |-> NoneId]
    ELSE IF IsTarget(list[i].externalId)
    THEN [kind |-> "found", id |-> list[i].externalId]
    ELSE FirstFrom(list, i + 1)

\* ResolveInstallation keeping the last target (no return inside the loop).
RECURSIVE LastFrom(_, _)
LastFrom(list, i) ==
    IF i < 1 THEN [kind |-> "none", id |-> NoneId]
    ELSE IF list[i].dict /\ Truthy(list[i].externalId)
            /\ StartsWith(list[i].externalId, INS_PREFIX)
    THEN [kind |-> "found", id |-> list[i].externalId]
    ELSE LastFrom(list, i - 1)

ResolveInstallationLast(list) == LastFrom(list, Len(list))

\* api.py:244-258
ResolveInstallation(list) ==
    IF list = <<>> THEN [kind |-> "none", id |-> NoneId] ELSE FirstFrom(list, 1)

\* Exceptions the model raises: a transport error, an error of response.json(),
\* an AttributeError of a .get on a value that is no object.
ExceptionKinds == {"ClientError", "JSONDecodeError", "AttributeError"}

\* AuthenticateCatches for a handler of transport errors alone.
AuthenticateCatchesTransport(e) == e = "ClientError"

\* api.py:73.  except Exception catches every one of them.
AuthenticateCatches(e) == e \in ExceptionKinds

\* An exception e leaves a step: authenticate() catches it (api.py:73-75),
\* a step called on its own lets it out.
Raise(e) ==
    IF op = "authenticate" /\ AuthenticateCatches(e)
    THEN Return("False")
    ELSE pc' = "idle" /\ ret' = "raise" /\ raised' = TRUE

\* api.py:237-258, called at api.py:69.
GetInstallationId ==
    /\ pc = "resolve"
    /\ IF NotToken(id_token)
       THEN /\ Return("False")
            /\ UNCHANGED <<reqLog, statusFail, excAt, installations,
                           installation_id>>
       ELSE \E r \in Response(InstallationBodies) :
            LET list == InstallationsResult(r)
                res == ResolveInstallation(list)
            IN  /\ reqLog' = Log("installations", id_token)
                /\ statusFail' = Failed(6, r)
                /\ excAt' = IF res.kind = "raise" THEN 6 ELSE Raised(6, r)
                /\ installations' = list
                /\ CASE res.kind = "found" ->
                        installation_id' = res.id /\ Return("True")
                     [] res.kind = "none" ->
                        installation_id' = installation_id /\ Return("False")
                     [] OTHER ->
                        installation_id' = installation_id /\ Raise("AttributeError")
    /\ PopPoller
    /\ UNCHANGED <<id_token, refresh_token, fid, firebase_auth_token,
                   pairing_completed, op, got, pre>>
    /\ UNCHANGED <<resp, host>>

\* An operation that runs from call to return in one step.
Atomic(o) ==
    /\ pc = "idle"
    /\ pc' = "idle"
    /\ op' = o
    /\ raised' = FALSE
    /\ statusFail' = 0
    /\ excAt' = 0
    /\ got' = [id |-> None, rt |-> None]
    /\ pre' = IF o = "refresh_token"
              THEN Frame(id_token, refresh_token)
              ELSE NoFrame
    /\ ResetPoller
    /\ UNCHANGED host

\* RefreshResult dropping the tokens when the refresh is refused.
RefreshResultClearing(r) ==
    IF r.exc \/ r.status # 200 \/ ~r.body.json \/ ~r.body.dict
    THEN [ok |-> FALSE, id |-> None, rt |-> None]
    ELSE [ok |-> TRUE, id |-> r.body.id_token, rt |-> r.body.refresh_token]

\* RefreshResult reading the camelCase keys of the signup response, which the
\* token endpoint does not answer.
RefreshResultCamelCase(r) ==
    IF r.exc \/ r.status # 200 \/ ~r.body.json \/ ~r.body.dict
    THEN [ok |-> FALSE, id |-> id_token, rt |-> refresh_token]
    ELSE [ok |-> TRUE, id |-> None, rt |-> None]

\* api.py:280-296.  What refresh_token makes of response r: both fields are
\* read from the parsed body after response.json() returned.
RefreshResult(r) ==
    IF r.exc \/ r.status # 200 \/ ~r.body.json \/ ~r.body.dict
    THEN [ok |-> FALSE, id |-> id_token, rt |-> refresh_token]
    ELSE [ok |-> TRUE, id |-> r.body.id_token, rt |-> r.body.refresh_token]

\* api.py:260-296
RefreshToken ==
    /\ Atomic("refresh_token")
    /\ IF NotToken(refresh_token)
       THEN /\ ret' = "False" /\ reqLog' = <<>> /\ resp' = NoResp
            /\ UNCHANGED <<id_token, refresh_token>>
       ELSE \E r \in Response(RefreshBodies) :
            LET res == RefreshResult(r)
            IN  /\ reqLog' = <<<<"refresh", None>>>>
                /\ resp' = r
                /\ id_token' = res.id
                /\ refresh_token' = res.rt
                /\ ret' = IF res.ok THEN "True" ELSE "False"
    /\ installations' = <<>>
    /\ UNCHANGED <<fid, firebase_auth_token, installation_id, pairing_completed>>

\* api.py:298-315
GetInstallations ==
    /\ Atomic("get_installations")
    /\ ret' = "list"
    /\ IF NotToken(id_token)
       THEN reqLog' = <<>> /\ installations' = <<>> /\ resp' = NoResp
       ELSE \E r \in Response(InstallationBodies) :
            /\ reqLog' = <<<<"installations", id_token>>>>
            /\ resp' = r
            /\ installations' = InstallationsResult(r)
    /\ UNCHANGED client

\* CicDataResult without the status test.
CicDataResultAnyStatus(r) ==
    IF r.exc THEN None ELSE "cicdata"

\* api.py:325-333.  What get_cic_data returns for response r.
CicDataResult(r) ==
    IF r.exc \/ r.status # 200 \/ ~r.body.json THEN None ELSE r.body.data

\* api.py:317-333
GetCicData ==
    /\ Atomic("get_cic_data")
    /\ IF NotToken(id_token)
       THEN reqLog' = <<>> /\ ret' = None /\ resp' = NoResp
       ELSE \E r \in Response(CicDataBodies) :
            /\ reqLog' = <<<<"cic", id_token>>>>
            /\ resp' = r
            /\ ret' = CicDataResult(r)
    /\ installations' = <<>>
    /\ UNCHANGED client

(***************************************************************************)
(* The client under its public operations.                                 *)
(***************************************************************************)
Next ==
    \/ Authenticate
    \/ GetFirebaseInstallation
    \/ SignupNewUser
    \/ UpdateUserProfile
    \/ RequestPair
    \/ WaitForPairing
    \/ PollIteration
    \/ PairingTimeout
    \/ GetInstallationId
    \/ RefreshToken
    \/ GetInstallations
    \/ GetCicData

Spec == Init /\ [][Next]_vars

(***************************************************************************)
(* The client with its bearer-authenticated steps also called on their     *)
(* own, as a unit test of a step calls them.                               *)
(***************************************************************************)
BearerSteps ==
    {<<"_update_user_profile", "profile">>, <<"_request_pair", "pair">>,
     <<"_wait_for_pairing", "wait">>, <<"_get_installation_id", "resolve">>}

CallStep == (\E u \in BearerSteps : Begin(u[1], u[2])) /\ UNCHANGED host

NextUnit == Next \/ CallStep

SpecUnit == Init /\ [][NextUnit]_vars

(***************************************************************************)
(* authenticate() alone, under the scheduling of the event loop: a request *)
(* that was issued completes and a sleep that was started ends, so the     *)
(* step the call stands at is eventually taken.                            *)
(***************************************************************************)
AuthSteps ==
    \/ GetFirebaseInstallation
    \/ SignupNewUser
    \/ UpdateUserProfile
    \/ RequestPair
    \/ WaitForPairing
    \/ PollIteration
    \/ PairingTimeout
    \/ GetInstallationId

NextLive == Authenticate \/ AuthSteps

SpecLive == Init /\ [][NextLive]_vars /\ WF_vars(AuthSteps)

(***************************************************************************)
(* The host's entry points.  Each constructs its own KwattApiClient and    *)
(* awaits its authenticate(); one entry point runs at a time.              *)
(***************************************************************************)
CIC_PREFIX == <<"C", "I", "C", "-">>

\* validate_cic without the length test.
ValidateCicPrefixOnly(c) == StartsWith(c, CIC_PREFIX)

\* config_flow.py:19-21
ValidateCic(c) == StartsWith(c, CIC_PREFIX) /\ Len(c) > 4

\* What a user can type for the device: its identifier, and malformed ones.
CicInputs ==
    {cic, CIC_PREFIX, <<"C", "I", "C">>, <<>>, <<"c", "i", "c", "-", "A">>,
     <<"X", "C", "I", "C", "-">>, <<"A", "B", "C", "D", "E", "F">>}

\* api.py:30.  The parameters of KwattApiClient.__init__ after self.
InitParams == <<"cic", "session">>

\* A call of the constructor with these positional arguments binds.
ConstructorAccepts(args) == Len(args) = Len(InitParams)

\* What store.async_load() can return: nothing, or a snapshot.
StoredData ==
    {NoSnapshot,
     [id_token |-> "idA", refresh_token |-> "rA",
      installation_id |-> <<"I", "N", "S", "-", "1">>]}

\* No client object: the client an earlier entry point constructed was its
\* local variable (config_flow.py:37, 106) and went with it.
NoClient ==
    /\ id_token' = None
    /\ refresh_token' = None
    /\ fid' = None
    /\ firebase_auth_token' = None
    /\ installation_id' = NoneId
    /\ pairing_completed' = FALSE
    /\ raised' = FALSE
    /\ reqLog' = <<>>
    /\ statusFail' = 0
    /\ excAt' = 0
    /\ got' = [id |-> None, rt |-> None]
    /\ pre' = [id |-> None, rt |-> None, inst |-> NoneId,
               paired |-> FALSE, fid |-> None, fbt |-> None]
    /\ installations' = <<>>
    /\ resp' = NoResp
    /\ ResetPoller

\* The entry point o returns v without having constructed a client.
HostReturn(o, v) ==
    /\ hostop' = o
    /\ hostret' = v
    /\ hostpc' = "idle"
    /\ made' = FALSE
    /\ NoClient
    /\ pc' = "idle"
    /\ op' = "none"
    /\ ret' = "none"

\* KwattApiClient(cic, session) (api.py:30-43), then await api.authenticate()
\* (api.py:45): the entry point o waits for the call to return.
HostCall(o) ==
    /\ NoClient
    /\ pc' = "firebase"
    /\ op' = "authenticate"
    /\ ret' = "running"
    /\ hostop' = o
    /\ hostret' = "running"
    /\ hostpc' = o
    /\ made' = TRUE

HostIdle == hostpc = "idle" /\ pc = "idle"

\* config_flow.py:59-61.  The host starts a new flow.
NewFlow ==
    /\ HostIdle
    /\ form # "none"
    /\ flow_cic' = NoneId
    /\ form' = "none"
    /\ errors' = {}
    /\ given' = NoInput
    /\ loaded' = NoSnapshot
    /\ HostReturn("new_flow", "none")
    /\ UNCHANGED <<saved, configured>>

\* config_flow.py:63-93; the valid branch ends in async_step_pair() called
\* without input, which shows the pair form (config_flow.py:81, 99-101,
\* 123-130).
FlowUser ==
    /\ HostIdle
    /\ form \in {"none", "user"}
    /\ \E user_input \in {NoInput} \cup CicInputs :
        /\ given' = user_input
        /\ IF user_input = NoInput
           THEN /\ form' = "user" /\ errors' = {}
                /\ HostReturn("user", "form")
                /\ UNCHANGED flow_cic
           ELSE IF ~ValidateCic(user_input)
           THEN /\ form' = "user" /\ errors' = {<<"cic", "invalid_cic">>}
                /\ HostReturn("user", "form")
                /\ UNCHANGED flow_cic
           ELSE IF configured
           THEN /\ form' = "abort" /\ errors' = {}
                /\ HostReturn("user", "abort")
                /\ UNCHANGED flow_cic
           ELSE /\ flow_cic' = user_input
                /\ form' = "pair" /\ errors' = {}
                /\ HostReturn("user", "form")
    /\ loaded' = NoSnapshot
    /\ UNCHANGED <<saved, configured>>

\* config_flow.py:95-108: the pair step up to its await of authenticate().
FlowPair ==
    /\ HostIdle
    /\ form = "pair"
    /\ \E confirmed \in BOOLEAN :
        IF ~confirmed
        THEN HostReturn("pair", "form")
        ELSE HostCall("pair")
    /\ errors' = {}
    /\ given' = NoInput
    /\ loaded' = NoSnapshot
    /\ UNCHANGED <<flow_cic, form, saved, configured>>

\* PairStepResult creating the entry whatever authenticate() returned.
PairStepResultAlwaysEntry(returned, exc) ==
    IF exc THEN "unknown" ELSE "entry"

\* config_flow.py:108-120.  What the pair step makes of its authenticate().
PairStepResult(returned, exc) ==
    IF exc THEN "unknown"
    ELSE IF returned # "True" THEN "pairing_timeout"
    ELSE "entry"

\* config_flow.py:108-130: authenticate() has returned to the pair step.
FlowPairDone ==
    /\ hostpc = "pair"
    /\ pc = "idle"
    /\ LET res == PairStepResult(ret, raised)
       IN  IF res = "entry"
           THEN /\ form' = "entry" /\ errors' = {}
                /\ hostret' = "entry"
                /\ configured' = TRUE
           ELSE /\ form' = "pair" /\ errors' = {<<"base", res>>}
                /\ hostret' = "form"
                /\ configured' = configured
    /\ hostpc' = "idle"
    /\ UNCHANGED <<client, pc, op, ret, raised, poller, reqLog, statusFail,
                   excAt, got, pre, installations, resp>>
    /\ UNCHANGED <<flow_cic, hostop, made, loaded, saved, given>>

\* config_flow.py:24-39: validate_input up to its await of authenticate().
ValidateInput ==
    /\ HostIdle
    /\ form = "none"
    /\ \E data \in CicInputs :
        /\ given' = data
        /\ IF ~ValidateCic(data)
           THEN HostReturn("validate_input", "InvalidCIC")
           ELSE HostCall("validate_input")
    /\ loaded' = NoSnapshot
    /\ UNCHANGED <<flow_cic, form, errors, saved, configured>>

\* config_flow.py:39-51: authenticate() has returned to validate_input, which
\* then awaits get_cic_data() (api.py:317-333).
ValidateDone ==
    /\ hostpc = "validate_input"
    /\ pc = "idle"
    /\ IF raised
       THEN /\ hostret' = "raise"
            /\ UNCHANGED <<op, ret, reqLog, resp>>
       ELSE IF ret # "True"
       THEN /\ hostret' = "CannotConnect"
            /\ UNCHANGED <<op, ret, reqLog, resp>>
       ELSE \E r \in Response(CicDataBodies) :
            LET cic_data == IF NotToken(id_token) THEN None ELSE CicDataResult(r)
            IN  /\ op' = "get_cic_data"
                /\ ret' = cic_data
                /\ reqLog' = IF NotToken(id_token) THEN <<>>
                                                   ELSE <<<<"cic", id_token>>>>
                /\ resp' = IF NotToken(id_token) THEN NoResp ELSE r
                /\ hostret' = IF cic_data = None THEN "CannotConnect" ELSE "info"
    /\ hostpc' = "idle"
    /\ UNCHANGED <<client, pc, raised, poller, statusFail, excAt, got, pre,
                   installations>>
    /\ UNCHANGED <<flow_cic, form, errors, hostop, made, loaded, saved,
                   configured, given>>

\* __init__.py:18-30: async_setup_entry for the device's config entry.  It
\* loads the Token Store and calls the constructor with (cic, session,
\* store); the constructor takes two arguments (api.py:30), so the call
\* raises TypeError and lines 32-54 are not reached.
SetupEntry ==
    /\ HostIdle
    /\ configured
    /\ \E stored_data \in StoredData :
        /\ loaded' = stored_data
        /\ IF ConstructorAccepts(<<"cic", "session", "store">>)
           THEN HostReturn("async_setup_entry", "constructed")
           ELSE HostReturn("async_setup_entry", "TypeError")
    /\ given' = NoInput
    /\ UNCHANGED <<flow_cic, form, errors, saved, configured>>

NextHost ==
    \/ NewFlow
    \/ FlowUser
    \/ FlowPair
    \/ FlowPairDone
    \/ ValidateInput
    \/ ValidateDone
    \/ SetupEntry
    \/ GetFirebaseInstallation
    \/ SignupNewUser
    \/ UpdateUserProfile
    \/ RequestPair
    \/ WaitForPairing
    \/ PollIteration
    \/ PairingTimeout
    \/ GetInstallationId

SpecHost == Init /\ [][NextHost]_vars

(***************************************************************************)
(* Vocabulary of the claims.                                              *)
(***************************************************************************)
Kinds(log) == [i \in DOMAIN log |-> log[i][1]]

\* The requests of authenticate() in the order of the contract.
AuthOrder == <<"firebase", "signup", "profile", "pair", "poll", "installations">>

IsPrefix(a, b) == Len(a) <= Len(b) /\ a = SubSeq(b, 1, Len(a))

BearerKinds == {"profile", "pair", "poll", "installations", "cic"}

Absent(t) == t \in {None, ""}

AuthReturned == op = "authenticate" /\ pc = "idle"

\* A record whose externalId starts with "INS-".
InsRecord(rec) ==
    /\ rec.dict
    /\ Len(rec.externalId) >= 4
    /\ <<rec.externalId[1], rec.externalId[2], rec.externalId[3], rec.externalId[4]>>
         = <<"I", "N", "S", "-">>

HasIns(list) == \E i \in DOMAIN list : InsRecord(list[i])

FirstIns(list) ==
    list[CHOOSE i \in DOMAIN list :
            InsRecord(list[i]) /\ \A j \in 1..(i - 1) : ~InsRecord(list[j])]

AllRecords(list) == \A i \in DOMAIN list : list[i].dict

Elapsed == now - start_time

\* The poller has issued polls and has returned to its caller.
PollerReturned ==
    /\ polls > 0
    /\ \/ op = "authenticate" /\ pc \in {"resolve", "idle"}
       \/ op = "_wait_for_pairing" /\ pc = "idle"

PollerReturnedTrue ==
    /\ PollerReturned
    /\ IF op = "authenticate" THEN pc = "resolve" ELSE ret = "True"

PollerReturnedFalse ==
    /\ PollerReturned
    /\ pc = "idle"
    /\ ret = "False"

(***************************************************************************)
(* Claims.                                                                 *)
(***************************************************************************)
\* C1: within one authenticate() the requests are issued in the order Firebase
\* installation, signup, profile update, pairing request, pairing polls,
\* installations listing, and once step N (1-4 or 6) has received a
\* non-success status, authenticate() has returned False and no request of
\* a later step was issued.
C1_FailFastInOrder ==
    op = "authenticate" =>
        /\ IsPrefix(Kinds(reqLog), AuthOrder)
        /\ statusFail # 0 =>
            /\ pc = "idle"
            /\ ret = "False"
            /\ Len(reqLog) = statusFail

C1_Witness ==
    /\ AuthReturned
    /\ statusFail = 4
    /\ ret = "False"
    /\ Kinds(reqLog) = <<"firebase", "signup", "profile", "pair">>

\* C2: authenticate() returns True only after all six steps succeeded in
\* that call, and then idToken is non-empty, pairingCompleted is true and
\* installationId is the externalId of the first "INS-" record of the
\* returned installations list.
C2_TrueMeansPaired ==
    (AuthReturned /\ ret = "True") =>
        /\ Kinds(reqLog) = AuthOrder
        /\ statusFail = 0
        /\ lastPoll = "confirm"
        /\ ~Absent(id_token)
        /\ pairing_completed = TRUE
        /\ HasIns(installations)
        /\ installation_id = FirstIns(installations).externalId

C2_Witness ==
    /\ AuthReturned
    /\ ret = "True"
    /\ Len(installations) = 2
    /\ InsRecord(installations[1])
    /\ InsRecord(installations[2])
    /\ installations[1] # installations[2]

\* C3 as stated: authenticate() never raises, and an exception in the remote
\* call of any step makes it return False.
C3_AnyExceptionFails ==
    AuthReturned =>
        /\ ~raised
        /\ excAt # 0 => ret = "False"

\* C3 as amended: authenticate() never raises; an exception in step 1, 2, 3,
\* 4 or 6 makes it return False (one in a pairing poll is tolerated); the
\* tokens the signup of the call answered stay in the client whatever the
\* call returns.
C3_ExceptionFailsKeepsState ==
    op = "authenticate" =>
        /\ ~raised
        /\ ret # "raise"
        /\ excAt \in {1, 2, 3, 4, 6} => (pc = "idle" /\ ret = "False")
        /\ Len(reqLog) >= 3 => (id_token = got.id /\ refresh_token = got.rt)

C3_Witness ==
    /\ AuthReturned
    /\ excAt = 6
    /\ ret = "False"
    /\ \E i \in DOMAIN installations : ~installations[i].dict
    /\ id_token = "idA"
    /\ refresh_token = "rA"
    /\ pre.inst = NoneId

\* C4: a poll that answers 200 with cic among result.cicIds, started within
\* the budget, is the last poll: the poller sets pairingCompleted, returns
\* True, and has slept once after each earlier poll and not after this one.
C4_ConfirmingPollReturns ==
    (lastPoll = "confirm" /\ polls > 0) =>
        /\ PollerReturnedTrue
        /\ pairing_completed = TRUE
        /\ sleeps = polls - 1
        /\ (now - lastDur) - start_time < 60

C4_Witness ==
    /\ PollerReturnedTrue
    /\ lastPoll = "confirm"
    /\ polls = 4
    /\ sleeps = 3
    /\ ~pollErr

\* C5 as stated: when every poll answers cicIds without cic, the poller
\* returns False after at least 60 and less than 62 seconds.
C5_TimeoutWithinOneInterval ==
    (PollerReturned /\ ~pollErr /\ lastPoll # "confirm") =>
        /\ PollerReturnedFalse
        /\ Elapsed >= 60
        /\ Elapsed < 62

\* C5 as amended: when every poll answers cicIds without cic, the poller
\* returns False after at least 60 seconds and less than 60 seconds plus the
\* duration of its last poll request plus one 2-second interval.
C5_TimeoutWithinLastPoll ==
    (PollerReturned /\ ~pollErr /\ lastPoll # "confirm") =>
        /\ PollerReturnedFalse
        /\ Elapsed >= 60
        /\ Elapsed < 60 + lastDur + 2

C5_Witness ==
    /\ PollerReturnedFalse
    /\ ~pollErr
    /\ lastPoll # "confirm"
    /\ lastDur = 1
    /\ Elapsed = 62

\* C6: a poll that fails (non-200 status or exception) does not end the
\* poller: each non-confirming poll is followed by the 2-second sleep, and a
\* poller in which a poll failed returns True on a later confirming poll, or
\* False only once the budget is used up.
C6_FailedPollKeepsPolling ==
    /\ pc = "poll" => (sleeps = polls /\ Elapsed >= 2 * sleeps)
    /\ (PollerReturned /\ pollErr) =>
        /\ ~raised
        /\ \/ PollerReturnedTrue /\ lastPoll = "confirm"
           \/ PollerReturnedFalse /\ Elapsed >= 60

C6_Witness ==
    /\ PollerReturnedTrue
    /\ pollErr
    /\ excAt = 5
    /\ lastPoll = "confirm"
    /\ polls >= 2

\* C7: no bearer-authenticated request is issued with an absent or empty
\* idToken, and each bearer-authenticated operation called without an
\* idToken returns its failure value without any request.
C7_NoBearerRequestWithoutToken ==
    /\ \A i \in DOMAIN reqLog :
        reqLog[i][1] \in BearerKinds => ~Absent(reqLog[i][2])
    /\ (pc = "idle" /\ Absent(id_token)) =>
        /\ op \in {"_update_user_profile", "_request_pair", "_wait_for_pairing",
                   "_get_installation_id"}
            => (reqLog = <<>> /\ ret = "False")
        /\ op = "get_installations"
            => (reqLog = <<>> /\ ret = "list" /\ installations = <<>>)
        /\ op = "get_cic_data" => (reqLog = <<>> /\ ret = None)

C7_Witness ==
    /\ pc = "idle"
    /\ op = "_wait_for_pairing"
    /\ id_token = ""
    /\ ret = "False"
    /\ reqLog = <<>>
    /\ polls = 0

\* C8: under the public operations, a set installationId implies that
\* pairingCompleted is true and that the id is an externalId starting with
\* "INS-".
C8_InstallationIdImpliesPaired ==
    installation_id # NoneId =>
        /\ pairing_completed = TRUE
        /\ installation_id \in ExternalIds
        /\ InsRecord([dict |-> TRUE, externalId |-> installation_id])

C8_Witness ==
    /\ installation_id # NoneId
    /\ pc = "idle"
    /\ op = "refresh_token"
    /\ ret = "True"

\* C9: for a list of installation records, _get_installation_id stores the
\* externalId of the first record starting with "INS-" and returns True;
\* with no such record (or an empty list) it returns False and leaves
\* installationId as it was.
C9_FirstInsRecord ==
    (AuthReturned /\ Kinds(reqLog) = AuthOrder /\ AllRecords(installations)) =>
        IF HasIns(installations)
        THEN /\ ret = "True"
             /\ installation_id = FirstIns(installations).externalId
        ELSE /\ ret = "False"
             /\ installation_id = pre.inst

C9_Witness ==
    /\ AuthReturned
    /\ Kinds(reqLog) = AuthOrder
    /\ Len(installations) = 2
    /\ installations[1] = [dict |-> TRUE, externalId |-> <<"X", "I", "N", "S", "-">>]
    /\ InsRecord(installations[2])
    /\ ret = "True"
    /\ pre.inst # NoneId
    /\ pre.inst # installation_id

\* C10: when refresh_token() returns False, idToken and refreshToken are
\* what they were at the call; without a refreshToken it returns False and
\* issues no request.
C10_FailedRefreshKeepsTokens ==
    (pc = "idle" /\ op = "refresh_token") =>
        /\ ret = "False" => (id_token = pre.id /\ refresh_token = pre.rt)
        /\ Absent(pre.rt) => (ret = "False" /\ reqLog = <<>>)

C10_Witness ==
    /\ pc = "idle"
    /\ op = "refresh_token"
    /\ ret = "False"
    /\ reqLog = <<<<"refresh", None>>>>
    /\ id_token = "idA"
    /\ refresh_token = "rA"

\* A 200 response whose body response.json() parses.
Ok200(r) == ~r.exc /\ r.status = 200 /\ r.body.json

SessionOps == {"refresh_token", "get_installations", "get_cic_data"}

Count(log, kind) == Cardinality({i \in DOMAIN log : log[i][1] = kind})

\* C11: refresh_token() on an HTTP 200 whose body is a JSON object overwrites
\* idToken and refreshToken with the body's id_token and refresh_token and
\* returns true; whatever the outcome, installationId, pairingCompleted, fid
\* and firebaseAuthToken are as they were at the call.
C11_RefreshOverwritesTokensOnly ==
    op = "refresh_token" =>
        /\ (reqLog # <<>> /\ Ok200(resp) /\ resp.body.dict) =>
                /\ id_token = resp.body.id_token
                /\ refresh_token = resp.body.refresh_token
                /\ ret = "True"
        /\ installation_id = pre.inst
        /\ pairing_completed = pre.paired
        /\ fid = pre.fid
        /\ firebase_auth_token = pre.fbt

C11_Witness ==
    /\ op = "refresh_token"
    /\ reqLog # <<>> /\ Ok200(resp) /\ resp.body.dict
    /\ id_token = "idB" /\ pre.id = "idA"
    /\ refresh_token = "rB" /\ pre.rt = "rA"
    /\ pre.paired /\ pre.inst # NoneId /\ pre.fid # None /\ pre.fbt # None

\* C12: no request is retried.  One authenticate() issues each of the
\* Firebase installation, signup, profile update, pairing request and
\* installations listing at most once; one refresh_token(), get_installations()
\* or get_cic_data() issues at most one request; a request is repeated only by
\* the pairing poller.
C12_NoRetry ==
    /\ op = "authenticate" =>
            \A k \in {"firebase", "signup", "profile", "pair", "installations"} :
                Count(reqLog, k) <= 1
    /\ op \in SessionOps => (Len(reqLog) <= 1 /\ polls = 0)
    /\ polls > 1 => (op = "authenticate" /\ Count(reqLog, "poll") = 1)

C12_Witness ==
    /\ AuthReturned /\ ret = "False"
    /\ polls > 1
    /\ Kinds(reqLog) = <<"firebase", "signup", "profile", "pair", "poll">>

\* C13: refresh_token(), get_installations() and get_cic_data() never raise.
\* On a non-200 status or a transport exception they return false, the empty
\* list and None; on an HTTP 200 with a JSON body get_installations() returns
\* the body's result array and get_cic_data() the parsed body.
C13_SessionOpsReturnDefaults ==
    (op \in SessionOps /\ reqLog # <<>>) =>
        /\ ~raised /\ ret # "raise"
        /\ (resp.exc \/ resp.status # 200) =>
                /\ op = "refresh_token" => ret = "False"
                /\ op = "get_installations" => installations = <<>>
                /\ op = "get_cic_data" => ret = None
        /\ Ok200(resp) =>
                /\ op = "get_installations" => installations = resp.body.result
                /\ op = "get_cic_data" => ret = resp.body.data

C13_Witness ==
    /\ op = "get_cic_data" /\ reqLog # <<>>
    /\ Ok200(resp) /\ ret = "cicdata"
\* C17: one pairing wait entered with an idToken issues at least one poll and
\* at most 30.  Every poll that does not confirm is followed by a 2-second
\* sleep, so at the loop check the clock has advanced by 2 seconds per poll,
\* and the poll last issued was started less than 60 seconds into the wait.
C17_PollCountBound ==
    /\ polls <= 30
    /\ (op = "_wait_for_pairing" /\ pc = "idle" /\ ~Absent(id_token)) => polls >= 1
    /\ (op = "authenticate" /\ pc = "resolve") => polls >= 1
    /\ pc = "poll" =>
            /\ sleeps = polls
            /\ Elapsed >= 2 * polls
            /\ polls > 0 => Elapsed - lastDur - 2 < 60
    /\ PollerReturnedTrue => sleeps = polls - 1
    /\ PollerReturnedFalse => sleeps = polls

C17_Witness ==
    /\ PollerReturnedFalse
    /\ op = "_wait_for_pairing"
    /\ polls = 30
    /\ sleeps = 30
\* C20: whenever refresh_token() returns true, idToken and refreshToken are
\* both non-empty afterwards, whatever the body of the HTTP 200 was.
C20_RefreshTrueMeansTokens ==
    (op = "refresh_token" /\ pc = "idle" /\ ret = "True") =>
        (~Absent(id_token) /\ ~Absent(refresh_token))
\* The clock readings the pairing wait can still go through at its loop
\* check: what is left of the timeout, one request and one sleep.
ClockLeft == PAIRING_TIMEOUT + MaxReqDur + PAIRING_CHECK_INTERVAL - Elapsed

\* A bound on the steps a running authenticate() has yet to take.
StepsLeft ==
    CASE pc = "firebase" -> ClockLeft + 6
      [] pc = "signup" -> ClockLeft + 5
      [] pc = "profile" -> ClockLeft + 4
      [] pc = "pair" -> ClockLeft + 3
      [] pc = "wait" -> ClockLeft + 2
      [] pc = "poll" -> ClockLeft + 1
      [] pc = "resolve" -> 1
      [] OTHER -> 0

\* C18: every authenticate() that was called returns true or false, given
\* that every request completes and every sleep ends (the fairness of
\* SpecLive): a running call can always take its next step, every step lowers
\* a natural-number bound on the steps left, so the pairing wait cannot loop
\* forever, and the call that stopped has returned True or False.
C18_AuthenticateReturns ==
    /\ []((op = "authenticate" /\ pc # "idle") => ENABLED AuthSteps)
    /\ [][(op = "authenticate" /\ pc # "idle") =>
                (StepsLeft' < StepsLeft /\ StepsLeft' >= 0)]_vars
    /\ []((op = "authenticate" /\ pc = "idle") =>
                (ret \in {"True", "False"} /\ ~raised))

C18_Witness ==
    /\ AuthReturned /\ ret = "False"
    /\ polls > 1 /\ pollErr /\ lastPoll = "other"
    /\ ~LoopCondition(now, start_time)
\* The identifier starts with "CIC-" and is longer than 4 characters.
WellFormed(c) == Len(c) > 4 /\ SubSeq(c, 1, 4) = <<"C", "I", "C", "-">>

Snapshot ==
    [id_token |-> id_token, refresh_token |-> refresh_token,
     installation_id |-> installation_id]

\* C14: the config flow's user step and validate_input reject every
\* identifier that does not both start with "CIC-" and have more than 4
\* characters (error cic = "invalid_cic", InvalidCIC raised), without
\* constructing a client and without any request; they accept an identifier
\* that satisfies both.
C14_InvalidCicRejected ==
    /\ (hostop = "user" /\ given # NoInput) =>
            IF WellFormed(given)
            THEN \/ form = "abort"
                 \/ form = "pair" /\ flow_cic = given /\ errors = {}
            ELSE /\ form = "user" /\ errors = {<<"cic", "invalid_cic">>}
                 /\ ~made /\ hostpc = "idle"
    /\ hostop = "validate_input" =>
            IF WellFormed(given)
            THEN made /\ hostret # "InvalidCIC"
            ELSE ~made /\ hostret = "InvalidCIC" /\ hostpc = "idle"
    /\ (hostop \in {"user", "validate_input"} /\ ~WellFormed(given)) =>
            (op = "none" /\ reqLog = <<>> /\ polls = 0)

C14_Witness ==
    /\ hostop = "validate_input"
    /\ given = <<"C", "I", "C", "-">>
    /\ hostret = "InvalidCIC"
    /\ ~made

\* C15: a snapshot {id_token, refresh_token, installation_id} found in the
\* Token Store at startup is loaded into the fresh client, whose tokens and
\* installationId then equal it, and the client is set up without a new
\* signup, pairing request or pairing poll.
C15_RoundTrip ==
    (hostop = "async_setup_entry" /\ hostpc = "idle" /\ loaded # NoSnapshot) =>
        /\ hostret \notin {"TypeError", "AttributeError"}
        /\ Snapshot = loaded
        /\ \A k \in {"signup", "pair", "poll"} : Count(reqLog, k) = 0

\* C16: when the authentication sequence has succeeded the snapshot of the
\* client is in the Token Store, and nothing is written for an
\* authentication that failed.
C16_SnapshotWritten ==
    (AuthReturned /\ hostpc = "idle" /\ hostop \in {"pair", "validate_input"}) =>
        /\ ret = "True" => saved = Snapshot
        /\ ret = "False" => saved = NoSnapshot

\* C19: the pair step creates the config entry exactly when the
\* authenticate() it awaited returned true; when it returned false the pair
\* form is shown again with base = "pairing_timeout", when an exception
\* escaped with base = "unknown", and no entry is created in either case.
C19_EntryOnlyAfterTrue ==
    /\ [](hostop = "pair" /\ hostpc = "idle" /\ made =>
            /\ form = "entry" <=> (ret = "True" /\ ~raised)
            /\ (ret = "False" /\ ~raised) =>
                    /\ form = "pair" /\ errors = {<<"base", "pairing_timeout">>}
                    /\ ~configured
            /\ raised =>
                    /\ form = "pair" /\ errors = {<<"base", "unknown">>}
                    /\ ~configured)
    /\ [][configured' # configured =>
            (hostpc = "pair" /\ ret = "True" /\ form' = "entry")]_vars

C19_Witness ==
    /\ hostop = "pair" /\ hostpc = "idle" /\ made
    /\ ret = "False"
    /\ polls = 30
    /\ form = "pair" /\ errors = {<<"base", "pairing_timeout">>}
\* C21: pairingCompleted and a set installationId refer to the current
\* identity.  Once an authenticate() has signed up a new user (its profile
\* update went out with the new idToken), pairingCompleted is true only if a
\* poll of that call confirmed the pairing, and installationId is set only
\* if that call returned True; in particular neither is carried over into
\* the state an authenticate() that returns False leaves.
C21_CurrentIdentity ==
    (op = "authenticate" /\ Count(reqLog, "profile") = 1) =>
        /\ pairing_completed => lastPoll = "confirm"
        /\ installation_id # NoneId => (pc = "idle" /\ ret = "True")
====
